---- MODULE Spec2Model ----
(***************************************************************************)
(* Generalized-Mersenne modular reduction, with the Montgomery and Barrett *)
(* reference reducers and the Kyber sweep, as a state machine.             *)
(*                                                                         *)
(* The C++ model computes in uint32 and uint64.  A uint64 is kept as eight *)
(* base-256 limbs, least significant first, and every uint64 operation     *)
(* wraps modulo 2^64 as the machine's does.  Values known to stay below    *)
(* 2^31 are kept as plain integers.                                        *)
(***************************************************************************)
EXTENDS Integers, Sequences, FiniteSets, TLC

VARIABLES
  pc,          \* position of the running program
  Q, a, b,     \* RunVerification's arguments (x, y, Q)
  golden,      \* RunVerification: (x * y) % Q
  params,      \* the PrimeDecomposition in use
  residual,    \* GeneralizedMersenneReduce: the uint64 accumulator
  iters,       \* coarse-loop iterations taken so far
  mersenne, montgomery, barrett,   \* the three results, NotRun until returned
  mu,          \* RunVerification: barrett_param
  quotient,    \* BarrettReduce: the quotient estimate
  error,       \* e.what() of the exception caught, or NoError
  copy,        \* which copy of the Kyber sweep runs
  ka, kb,      \* the sweep's loop variables a and b
  r1, loop_cnt, loop_max, res,     \* the sweep's working variables
  scan_q, scan_R,    \* CalculateMontgomeryInverse's arguments q and R
  scan_i,            \* its loop variable i
  scan_inv           \* the value it returned, 0 until it returns

vars == <<pc, Q, a, b, golden, params, residual, iters,
          mersenne, montgomery, barrett, mu, quotient, error,
          copy, ka, kb, r1, loop_cnt, loop_max, res,
          scan_q, scan_R, scan_i, scan_inv>>

cppVars == <<Q, a, b, golden, params, residual, iters,
             mersenne, montgomery, barrett, mu, quotient, error>>

kyberVars == <<copy, ka, kb, r1, loop_cnt, loop_max, res>>

scanVars == <<scan_q, scan_R, scan_i, scan_inv>>

(***************************************************************************)
(* uint64 arithmetic on limbs                                              *)
(***************************************************************************)

\* number of base-256 limbs of a uint64
NumLimbs == 8

Pow2(n) == 2 ^ n

Zero64 == <<0, 0, 0, 0, 0, 0, 0, 0>>

\* static_cast<uint64>(n) of a value 0 <= n < 2^31
U64(n) ==
  <<n % 256, (n \div 256) % 256, (n \div 65536) % 256, n \div 16777216,
    0, 0, 0, 0>>

\* the value of x as an integer, for x < 2^31
FitsInt(x) == x[4] < 128 /\ x[5] = 0 /\ x[6] = 0 /\ x[7] = 0 /\ x[8] = 0

ToInt(x) == x[1] + 256 * x[2] + 65536 * x[3] + 16777216 * x[4]

\* static_cast<uint32>(x): the low 32 bits
U32(x) == <<x[1], x[2], x[3], x[4], 0, 0, 0, 0>>

Limb(x, i) == IF i \in 1..NumLimbs THEN x[i] ELSE 0

\* x < 2^15: the product of two such values is below 2^31
Small(x) ==
  x[2] < 128 /\ x[3] = 0 /\ x[4] = 0
  /\ x[5] = 0 /\ x[6] = 0 /\ x[7] = 0 /\ x[8] = 0

\* x < 2^30: the sum of two such values is below 2^31
Half(x) == x[4] < 64 /\ x[5] = 0 /\ x[6] = 0 /\ x[7] = 0 /\ x[8] = 0

\* x + y modulo 2^64: limb sums with the carry passed up, the carry out of the
\* top limb dropped
Add64(x, y) ==
  IF Half(x) /\ Half(y) THEN U64(ToInt(x) + ToInt(y))
  ELSE
  LET c1 == x[1] + y[1]
      c2 == x[2] + y[2]
      c3 == x[3] + y[3]
      c4 == x[4] + y[4]
      c5 == x[5] + y[5]
      c6 == x[6] + y[6]
      c7 == x[7] + y[7]
      c8 == x[8] + y[8]
      v1 == c1
      v2 == c2 + (v1 \div 256)
      v3 == c3 + (v2 \div 256)
      v4 == c4 + (v3 \div 256)
      v5 == c5 + (v4 \div 256)
      v6 == c6 + (v5 \div 256)
      v7 == c7 + (v6 \div 256)
      v8 == c8 + (v7 \div 256)
  IN  <<v1 % 256, v2 % 256, v3 % 256, v4 % 256, v5 % 256, v6 % 256, v7 % 256, v8 % 256>>

\* x - y modulo 2^64: x + ~y + 1
Sub64(x, y) ==
  IF FitsInt(x) /\ FitsInt(y) /\ ToInt(x) >= ToInt(y)
  THEN U64(ToInt(x) - ToInt(y))
  ELSE
  LET c1 == x[1] + 255 - y[1]
      c2 == x[2] + 255 - y[2]
      c3 == x[3] + 255 - y[3]
      c4 == x[4] + 255 - y[4]
      c5 == x[5] + 255 - y[5]
      c6 == x[6] + 255 - y[6]
      c7 == x[7] + 255 - y[7]
      c8 == x[8] + 255 - y[8]
      v1 == c1 + 1
      v2 == c2 + (v1 \div 256)
      v3 == c3 + (v2 \div 256)
      v4 == c4 + (v3 \div 256)
      v5 == c5 + (v4 \div 256)
      v6 == c6 + (v5 \div 256)
      v7 == c7 + (v6 \div 256)
      v8 == c8 + (v7 \div 256)
  IN  <<v1 % 256, v2 % 256, v3 % 256, v4 % 256, v5 % 256, v6 % 256, v7 % 256, v8 % 256>>

\* x * y modulo 2^64: schoolbook columns, the columns past the top limb dropped
Mul64(x, y) ==
  IF Small(x) /\ Small(y) THEN U64(ToInt(x) * ToInt(y))
  ELSE
  LET
      c1 == x[1] * y[1]
      c2 == x[1] * y[2] + x[2] * y[1]
      c3 == x[1] * y[3] + x[2] * y[2] + x[3] * y[1]
      c4 == x[1] * y[4] + x[2] * y[3] + x[3] * y[2] + x[4] * y[1]
      c5 == x[1] * y[5] + x[2] * y[4] + x[3] * y[3] + x[4] * y[2] + x[5] * y[1]
      c6 == x[1] * y[6] + x[2] * y[5] + x[3] * y[4] + x[4] * y[3] + x[5] * y[2] + x[6] * y[1]
      c7 == x[1] * y[7] + x[2] * y[6] + x[3] * y[5] + x[4] * y[4] + x[5] * y[3] + x[6] * y[2] + x[7] * y[1]
      c8 == x[1] * y[8] + x[2] * y[7] + x[3] * y[6] + x[4] * y[5] + x[5] * y[4] + x[6] * y[3] + x[7] * y[2] + x[8] * y[1]
      v1 == c1
      v2 == c2 + (v1 \div 256)
      v3 == c3 + (v2 \div 256)
      v4 == c4 + (v3 \div 256)
      v5 == c5 + (v4 \div 256)
      v6 == c6 + (v5 \div 256)
      v7 == c7 + (v6 \div 256)
      v8 == c8 + (v7 \div 256)
  IN  <<v1 % 256, v2 % 256, v3 % 256, v4 % 256, v5 % 256, v6 % 256, v7 % 256, v8 % 256>>

\* x >> n, 0 <= n < 64
Shr64(x, n) ==
  LET d == n \div 8
      r == n % 8
      lo == Pow2(r)
      hi == Pow2(8 - r)
      S(i) == (Limb(x, i + d) \div lo) + (Limb(x, i + d + 1) % lo) * hi
  IN  <<S(1), S(2), S(3), S(4), S(5), S(6), S(7), S(8)>>

\* x << n modulo 2^64, 0 <= n < 64
Shl64(x, n) ==
  LET d == n \div 8
      r == n % 8
      lo == Pow2(r)
      hi == Pow2(8 - r)
      S(i) == ((Limb(x, i - d) * lo) % 256) + (Limb(x, i - d - 1) \div hi)
  IN  <<S(1), S(2), S(3), S(4), S(5), S(6), S(7), S(8)>>

RECURSIVE Cmp64(_, _, _)
Cmp64(x, y, i) ==
  IF i = 0 THEN 0
  ELSE IF x[i] < y[i] THEN -1
  ELSE IF x[i] > y[i] THEN 1
  ELSE Cmp64(x, y, i - 1)

Lt64(x, y) == Cmp64(x, y, NumLimbs) < 0
Le64(x, y) == Cmp64(x, y, NumLimbs) <= 0
Gt64(x, y) == Cmp64(x, y, NumLimbs) > 0
Ge64(x, y) == Cmp64(x, y, NumLimbs) >= 0

\* one limb of a long division by d (1 <= d <= 2^30), bit by bit: 2 * rem + 1
\* stays below 2^31
RECURSIVE DivBits(_, _, _, _, _)
DivBits(byte, d, k, rem, qb) ==
  IF k < 0 THEN <<qb, rem>>
  ELSE LET r2 == 2 * rem + ((byte \div Pow2(k)) % 2)
       IN  IF r2 >= d THEN DivBits(byte, d, k - 1, r2 - d, 2 * qb + 1)
           ELSE DivBits(byte, d, k - 1, r2, 2 * qb)

\* one limb of the long division: at once while 256 * rem + byte is below 2^31
DivLimb(byte, d, rem) ==
  IF rem < 8388608
  THEN LET v == 256 * rem + byte IN <<v \div d, v % d>>
  ELSE DivBits(byte, d, 7, rem, 0)

RECURSIVE DivLimbs(_, _, _, _, _)
DivLimbs(x, d, i, rem, acc) ==
  IF i = 0 THEN [quot |-> acc, rem |-> rem]
  ELSE LET s == DivLimb(x[i], d, rem)
       IN  DivLimbs(x, d, i - 1, s[2], <<s[1]>> \o acc)

\* x / d and x % d of a uint64 x by 1 <= d <= 2^30
Div64(x, d) == DivLimbs(x, d, NumLimbs, 0, <<>>).quot
Mod64(x, d) == DivLimbs(x, d, NumLimbs, 0, <<>>).rem

\* x % 2^n, 0 <= n <= 64
LowBits64(x, n) ==
  LET S(i) == IF 8 * i <= n THEN x[i]
              ELSE IF 8 * (i - 1) >= n THEN 0
              ELSE x[i] % Pow2(n - 8 * (i - 1))
  IN  <<S(1), S(2), S(3), S(4), S(5), S(6), S(7), S(8)>>

(***************************************************************************)
(* The mathematical product modulo Q, by doubling: no intermediate value   *)
(* reaches 2^31 for Q <= 2^30.  The reference the reducers are held to.    *)
(***************************************************************************)
RECURSIVE ProductMod(_, _, _)
ProductMod(x, y, m) ==
  IF y = 0 THEN 0
  ELSE LET h == ProductMod(x, y \div 2, m)
       IN  (((2 * h) % m) + (IF y % 2 = 1 THEN x % m ELSE 0)) % m

(***************************************************************************)
(* PrimeDecomposition and DecomposePrime                                   *)
(***************************************************************************)

PrimeDecomposition(p, k, q, R, valid) ==
  [exponent_p |-> p, coefficient_k |-> k, shift_q |-> q,
   modulus_R |-> R, is_valid |-> valid]

\* the default-constructed struct
NoDecomposition == PrimeDecomposition(-1, -1, -1, 0, FALSE)

MIN_PRIME == 2

INT_MIN == (-2147483647) - 1

\* num && !(num & (num - 1)), for num < 2^31
IsPowerOfTwo(num) == num # 0 /\ \E e \in 0..30 : num = Pow2(e)

\* static_cast<int>(log2(n)) for 1 <= n < 2^31: log2 of a double is exact on
\* powers of two and never rounds across an integer below 2^32
FloorLog2(n) ==
  CHOOSE e \in 0..30 : Pow2(e) <= n /\ (e = 30 \/ n < Pow2(e + 1))

\* static_cast<uint32>(ceil(log2(n))) for 1 <= n <= 2^30
CeilLog2(n) ==
  CHOOSE e \in 0..30 : n <= Pow2(e) /\ (e = 0 \/ n > Pow2(e - 1))

\* while ((s & 1) == 0) { ++q; s >>= 1; } for s >= 1
RECURSIVE StripTwos(_, _)
StripTwos(s, q) ==
  IF s % 2 = 1 THEN <<s, q>> ELSE StripTwos(s \div 2, q + 1)

\* DecomposePrime(x) for 2 <= x <= 2^30
DecomposePrime(x) ==
  IF x = MIN_PRIME THEN PrimeDecomposition(1, 1, 0, 2, TRUE)
  ELSE LET temp == x - 1
       IN  IF IsPowerOfTwo(temp)
           THEN LET m == FloorLog2(temp)
                IN  PrimeDecomposition(m, 0, 1, Pow2(m + 1), TRUE)
           ELSE LET st == StripTwos(temp, 0)
                    s  == st[1]
                    q  == st[2]
                    t  == Pow2(CeilLog2(s))
                    p  == q + FloorLog2(t)
                IN  PrimeDecomposition(p, t - s, q, Pow2(p), TRUE)

\* DecomposePrime(0): temp = 2^32 - 1 is odd, so q = 0 and s = 2^32 - 1;
\* ceil(log2(s)) is 32 and 1U << 32 is undefined.  A build that masks the
\* shift count gives t = 1 (p = 0, k = 2, R = 1); one that shifts out gives
\* t = 0, whose log2 is -inf, converted to int as INT_MIN, and R = 1U << p is
\* again an undefined shift (0 or 1).  k is t - s modulo 2^32.
DecomposeZeroOutcomes ==
  { PrimeDecomposition(0, 2, 0, 1, TRUE),
    PrimeDecomposition(INT_MIN, 1, 0, 0, TRUE),
    PrimeDecomposition(INT_MIN, 1, 0, 1, TRUE) }

(***************************************************************************)
(* GeneralizedMersenneReduce                                               *)
(***************************************************************************)

\* 2 * Q in uint32, widened for the comparison with residual
TwoQ(q) == U32(Mul64(U64(2), U64(q)))

\* the loop condition residual > 2 * Q
CoarseLoopRuns(r, q) == Gt64(r, TwoQ(q))

Cres(r, q, d) ==
  LET shift1 == d.exponent_p
      shift2 == 2 * d.exponent_p - d.shift_q
  IN  IF q > Pow2(d.exponent_p)
      THEN Sub64(Shr64(r, shift1), Shr64(r, shift2))
      ELSE Add64(Shr64(r, shift1),
                 Mul64(U64(d.coefficient_k), Shr64(r, shift2)))

\* step2 alone, without the + step1
StepAmountNoAdd(step1, q, d) ==
  Shl64(Mul64(step1, U64(q \div Pow2(d.shift_q))), d.shift_q)

\* step2 = ((step1 * (Q >> shift_q)) << shift_q); step2 + step1
StepAmount(step1, q, d) ==
  LET step2 == Shl64(Mul64(step1, U64(q \div Pow2(d.shift_q))), d.shift_q)
  IN  Add64(step2, step1)

\* step2 + step1, the amount one iteration subtracts
CoarseAmount(r, q, d) == StepAmount(Cres(r, q, d), q, d)

\* values of the uint64 Cres: small ones, ones around 2^16 and 2^31, and
\* ones whose product with Q passes 2^64
CresSamples ==
  { U64(0), U64(1), U64(3), U64(65535), U64(65537), U64(2147483647),
    <<0, 0, 0, 0, 1, 0, 0, 0>>, <<0, 0, 0, 0, 0, 0, 0, 128>>,
    <<255, 255, 255, 255, 255, 255, 255, 255>> }

\* one iteration of the loop body: residual -= step2 + step1
CoarseStep(r, q, d) == Sub64(r, CoarseAmount(r, q, d))

\* static_cast<uint32>((residual >= Q) ? (residual - Q) : residual)
FinalAdjust(r, q) ==
  U32(IF Ge64(r, U64(q)) THEN Sub64(r, U64(q)) ELSE r)

(***************************************************************************)
(* Montgomery                                                              *)
(***************************************************************************)

\* the test with 1 in the place of R - 1
ScanHitPlain(i, q, R) == ProductMod(i, q, R) = 1

\* (static_cast<uint64>(i) * q) % R == R - 1
ScanHit(i, q, R) == ProductMod(i, q, R) = R - 1

\* the value CalculateMontgomeryInverse's scan returns, or 0 when the scan
\* runs off the end of [1, R) and the function throws.  static_cast<uint64>(i)
\* * q does not overflow, so (i * q) % R is the mathematical residue.
CalculateMontgomeryInverse(q, R) ==
  IF \E i \in 1..(R - 1) : ScanHit(i, q, R)
  THEN CHOOSE i \in 1..(R - 1) : ScanHit(i, q, R)
  ELSE 0

\* MontgomeryReduce(res_m, q, inv, R_shift): res_m a uint64, the result a
\* uint32 (widened)
MontgomeryReduce(res_m, q, inv, R_shift) ==
  LET m == LowBits64(U32(Mul64(U32(res_m), U64(inv))), R_shift)
      y == Shr64(Add64(res_m, Mul64(m, U64(q))), R_shift)
  IN  U32(IF Ge64(y, U64(q)) THEN Sub64(y, U64(q)) ELSE y)

\* MontgomeryMultiply past its validity check, given the inverse
MontgomeryProduct(x, y, q, d, inv) ==
  LET R       == d.modulus_R
      R_shift == d.exponent_p
      a_m     == Mod64(Mul64(U64(x), U64(R)), q)
      b_m     == Mod64(Mul64(U64(y), U64(R)), q)
      product == Mul64(U64(a_m), U64(b_m))
      first   == MontgomeryReduce(product, q, inv, R_shift)
      second  == MontgomeryReduce(first, q, inv, R_shift)
  IN  Mod64(second, q)

(***************************************************************************)
(* Barrett                                                                 *)
(***************************************************************************)

\* (R * R) / q: the product and the division are uint32, the result widened
CalculateBarrettParameter(q, R) ==
  Div64(U32(Mul64(U64(R), U64(R))), q)

\* 2 * static_cast<uint32>(log2(q) + 1), forgetting the + 1
BarrettShiftNoPlusOne(q) == 2 * FloorLog2(q)

\* 2 * static_cast<uint32>(log2(q) + 1)
BarrettShift(q) == 2 * (FloorLog2(q) + 1)

BarrettQuotient(x, y, q, param_p) ==
  Shr64(Mul64(Mul64(U64(x), U64(y)), param_p), BarrettShift(q))

\* product - quotient * q, then while (result >= q) result -= q: the loop
\* leaves result % q
BarrettReduce(x, y, q, param_p) ==
  LET product == Mul64(U64(x), U64(y))
      result  == Sub64(product, Mul64(BarrettQuotient(x, y, q, param_p), U64(q)))
  IN  Mod64(result, q)

(***************************************************************************)
(* The inputs explored                                                     *)
(***************************************************************************)

\* main's test modulus and operands, and the second operand of its zero test
TEST_Q == 1073479681
TEST_X == 412223
TEST_Y == 412132
ZERO_TEST_Y == 12345

\* the moduli main's comment lists as typical
SupportedModuli == {3329, 7681, 12289, 65537, 8380417, 8404993, TEST_Q}

\* every modulus 2..MaxSmallModulus is run on all of its operand pairs
MaxSmallModulus == 31

\* a large modulus is run on 0..OperandSpan, Q-1-OperandSpan..Q-1, the powers
\* of two below it and main's test operands
OperandSpan == 3

\* coarse-loop iterations followed in one call
MaxIters == 20

\* the largest R whose inverse scan over [1, R) is followed
MaxScanR == 131072

Moduli == SupportedModuli \cup (2..MaxSmallModulus)

Operands(q) ==
  IF q <= MaxSmallModulus THEN 0..(q - 1)
  ELSE (0..OperandSpan) \cup ((q - 1 - OperandSpan)..(q - 1))
       \cup {Pow2(e) : e \in {n \in 0..30 : Pow2(n) < q}}
       \cup {v \in {TEST_X, TEST_Y, ZERO_TEST_Y} : v < q}

DecomposeInputs == (0..MaxSmallModulus) \cup SupportedModuli

NotRun == 0 - 1

NoError == "none"
InvalidDecomposition == "Invalid prime decomposition"
InvalidMontgomery == "Invalid modulus for Montgomery"
InverseNotFound == "Montgomery inverse not found"

\* CalculateMontgomeryInverse(q, R) of each modulus whose scan is followed
ScannedModuli == {q \in Moduli : DecomposePrime(q).modulus_R <= MaxScanR}

\* the pairs <<q, inv>>, scanned once at start-up
MontgomeryInverses ==
  {<<q, CalculateMontgomeryInverse(q, DecomposePrime(q).modulus_R)>> :
     q \in ScannedModuli}

MontgomeryInverseOf(q) == (CHOOSE pr \in MontgomeryInverses : pr[1] = q)[2]

(***************************************************************************)
(* The C++ program: RunVerification and the calls it makes                 *)
(***************************************************************************)

Fresh ==
  /\ Q = 0 /\ a = 0 /\ b = 0 /\ golden = 0
  /\ params = NoDecomposition
  /\ residual = Zero64 /\ iters = 0
  /\ mersenne = NotRun /\ montgomery = NotRun /\ barrett = NotRun
  /\ mu = Zero64 /\ quotient = Zero64
  /\ error = NoError

KyberIdle ==
  /\ copy = "none" /\ ka = 0 /\ kb = 0
  /\ r1 = 0 /\ loop_cnt = 0 /\ loop_max = 0 /\ res = 0

ScanIdle == scan_q = 0 /\ scan_R = 0 /\ scan_i = 0 /\ scan_inv = 0

Init == pc = "idle" /\ Fresh /\ KyberIdle /\ ScanIdle

\* RunVerification(x, y, Q) up to its first call
RunVerification ==
  /\ pc = "idle"
  /\ \E q \in Moduli : \E x, y \in Operands(q) :
       /\ Q' = q /\ a' = x /\ b' = y
       /\ golden' = Mod64(Mul64(U64(x), U64(y)), q)
  /\ pc' = "mersenne"
  /\ UNCHANGED <<params, residual, iters, mersenne, montgomery, barrett,
                 mu, quotient, error>>
  /\ UNCHANGED kyberVars
  /\ UNCHANGED scanVars

\* GeneralizedMersenneReduce up to the loop
MersenneEnter ==
  /\ pc = "mersenne"
  /\ LET d == DecomposePrime(Q)
     IN  /\ params' = d
         /\ IF ~d.is_valid
            THEN /\ error' = InvalidDecomposition
                 /\ pc' = "error"
                 /\ UNCHANGED residual
            ELSE /\ residual' = Mul64(U64(a), U64(b))
                 /\ pc' = "gm_loop"
                 /\ UNCHANGED error
  /\ UNCHANGED <<Q, a, b, golden, iters, mersenne, montgomery, barrett,
                 mu, quotient>>
  /\ UNCHANGED kyberVars
  /\ UNCHANGED scanVars

\* one iteration of while (residual > 2 * Q)
MersenneStep ==
  /\ pc = "gm_loop"
  /\ CoarseLoopRuns(residual, Q)
  /\ iters < MaxIters
  /\ residual' = CoarseStep(residual, Q, params)
  /\ iters' = iters + 1
  /\ UNCHANGED <<pc, Q, a, b, golden, params, mersenne, montgomery, barrett,
                 mu, quotient, error>>
  /\ UNCHANGED kyberVars
  /\ UNCHANGED scanVars

\* the loop exit and the return
MersenneReturn ==
  /\ pc = "gm_loop"
  /\ ~CoarseLoopRuns(residual, Q)
  /\ mersenne' = ToInt(FinalAdjust(residual, Q))
  /\ pc' = "montgomery"
  /\ UNCHANGED <<Q, a, b, golden, params, residual, iters, montgomery,
                 barrett, mu, quotient, error>>
  /\ UNCHANGED kyberVars
  /\ UNCHANGED scanVars

\* MontgomeryMultiply(x, y, Q)
MontgomeryMultiply ==
  /\ pc = "montgomery"
  /\ Q \in ScannedModuli
  /\ LET d == DecomposePrime(Q)
     IN  /\ params' = d
         /\ IF ~d.is_valid \/ d.modulus_R = 0
            THEN /\ error' = InvalidMontgomery
                 /\ pc' = "error"
                 /\ UNCHANGED montgomery
            ELSE IF MontgomeryInverseOf(Q) = 0
            THEN /\ error' = InverseNotFound
                 /\ pc' = "error"
                 /\ UNCHANGED montgomery
            ELSE /\ montgomery' =
                      MontgomeryProduct(a, b, Q, d, MontgomeryInverseOf(Q))
                 /\ pc' = "barrett"
                 /\ UNCHANGED error
  /\ UNCHANGED <<Q, a, b, golden, residual, iters, mersenne, barrett,
                 mu, quotient>>
  /\ UNCHANGED kyberVars
  /\ UNCHANGED scanVars

\* MontgomeryMultiply for a modulus whose inverse scan is not followed: its
\* result stays NotRun and the run goes on to Barrett
MontgomeryBeyondScan ==
  /\ pc = "montgomery"
  /\ Q \notin ScannedModuli
  /\ pc' = "barrett"
  /\ UNCHANGED cppVars
  /\ UNCHANGED kyberVars
  /\ UNCHANGED scanVars

\* DecomposePrime, CalculateBarrettParameter and BarrettReduce
BarrettCall ==
  /\ pc = "barrett"
  /\ LET d == DecomposePrime(Q)
         barrett_param == CalculateBarrettParameter(Q, d.modulus_R)
     IN  /\ params' = d
         /\ mu' = barrett_param
         /\ quotient' = BarrettQuotient(a, b, Q, barrett_param)
         /\ barrett' = BarrettReduce(a, b, Q, barrett_param)
  /\ pc' = "done"
  /\ UNCHANGED <<Q, a, b, golden, residual, iters, mersenne, montgomery,
                 error>>
  /\ UNCHANGED kyberVars
  /\ UNCHANGED scanVars

\* RunVerification returns (after its catch when pc = "error"), and so does a
\* direct call of DecomposePrime
Return ==
  /\ pc \in {"done", "error", "decomposed"}
  /\ pc' = "idle"
  /\ Q' = 0 /\ a' = 0 /\ b' = 0 /\ golden' = 0
  /\ params' = NoDecomposition
  /\ residual' = Zero64 /\ iters' = 0
  /\ mersenne' = NotRun /\ montgomery' = NotRun /\ barrett' = NotRun
  /\ mu' = Zero64 /\ quotient' = Zero64
  /\ error' = NoError
  /\ UNCHANGED kyberVars
  /\ UNCHANGED scanVars

\* DecomposePrime(x) called on its own, x >= 2
DecomposeCall ==
  /\ pc = "idle"
  /\ \E x \in DecomposeInputs :
       /\ x >= 2
       /\ Q' = x
       /\ params' = DecomposePrime(x)
  /\ pc' = "decomposed"
  /\ UNCHANGED <<a, b, golden, residual, iters, mersenne, montgomery,
                 barrett, mu, quotient, error>>
  /\ UNCHANGED kyberVars
  /\ UNCHANGED scanVars

\* DecomposePrime(0): an undefined shift decides what is returned
DecomposeZero ==
  /\ pc = "idle"
  /\ Q' = 0
  /\ params' \in DecomposeZeroOutcomes
  /\ pc' = "decomposed"
  /\ UNCHANGED <<a, b, golden, residual, iters, mersenne, montgomery,
                 barrett, mu, quotient, error>>
  /\ UNCHANGED kyberVars
  /\ UNCHANGED scanVars

\* DecomposePrime(1): temp = 0 is no power of two and s = 0 stays even, so
\* the stripping loop is entered and never left
DecomposeOne ==
  /\ pc = "idle"
  /\ Q' = 1
  /\ pc' = "strip_loop"
  /\ UNCHANGED <<a, b, golden, params, residual, iters, mersenne,
                 montgomery, barrett, mu, quotient, error>>
  /\ UNCHANGED kyberVars
  /\ UNCHANGED scanVars

Next ==
  \/ RunVerification
  \/ MersenneEnter
  \/ MersenneStep
  \/ MersenneReturn
  \/ MontgomeryMultiply
  \/ MontgomeryBeyondScan
  \/ BarrettCall
  \/ Return
  \/ DecomposeCall
  \/ DecomposeZero
  \/ DecomposeOne

Spec == Init /\ [][Next]_vars

(***************************************************************************)
(* The Kyber sweep (kyber_test.m and its Chinese-commented copy)           *)
(***************************************************************************)

KyberM == 6
KyberN == 8
KyberK == 3

\* Q = 2^(2*m) - k*2^n + 1
KyberQ == Pow2(2 * KyberM) - KyberK * Pow2(KyberN) + 1

\* the sweep visits 1..SweepSpan, KyberQ-SweepSpan..KyberQ-1 and the multiples
\* of SweepStride, in increasing order, for a and for b
SweepSpan == 8
SweepStride == 64

SweepValues ==
  {v \in 1..(KyberQ - 1) :
     v <= SweepSpan \/ v >= KyberQ - SweepSpan \/ v % SweepStride = 0}

SweepFirst == CHOOSE v \in SweepValues : \A u \in SweepValues : v <= u
SweepLast == CHOOSE v \in SweepValues : \A u \in SweepValues : u <= v

SweepSuccessors ==
  {<<v, CHOOSE w \in SweepValues :
          w > v /\ \A u \in SweepValues : u > v => w <= u>> :
     v \in SweepValues \ {SweepLast}}

SweepNext(v) == (CHOOSE pr \in SweepSuccessors : pr[1] = v)[2]

Copies == {"english", "chinese"}

\* while (r1 > 2 * Q) in the English copy, while (r1 > 3 * Q) in the Chinese
KyberThreshold(c) == IF c = "english" THEN 2 * KyberQ ELSE 3 * KyberQ

\* t = t1 + t2 in the English copy, t = t1 + 3 * t2 in the Chinese
KyberT(c, r) ==
  LET t1 == r \div Pow2(2 * KyberM)
      t2 == t1 \div Pow2(2 * KyberM - KyberN)
  IN  IF c = "english" THEN t1 + t2 ELSE t1 + 3 * t2

\* t_mul_q with the + t left out
KyberTMulQNoAdd(c, r) ==
  (KyberT(c, r) * (KyberQ \div Pow2(KyberN))) * Pow2(KyberN)

\* tmp1 = t * bitshift(Q, -n); t_mul_q = bitshift(tmp1, n) + t
KyberTMulQ(c, r) ==
  LET t    == KyberT(c, r)
      tmp1 == t * (KyberQ \div Pow2(KyberN))
  IN  tmp1 * Pow2(KyberN) + t

\* while res > Q, res = res - Q
RECURSIVE KyberFinalReduce(_)
KyberFinalReduce(v) == IF v > KyberQ THEN KyberFinalReduce(v - KyberQ) ELSE v

InitKyber ==
  /\ pc = "k_pair"
  /\ Fresh
  /\ copy \in Copies
  /\ ka = SweepFirst /\ kb = SweepFirst
  /\ r1 = 0 /\ loop_cnt = 0 /\ loop_max = 0 /\ res = 0
  /\ ScanIdle

\* x = a * b; r1 = x; loop_cnt = 0
KyberStart ==
  /\ pc = "k_pair"
  /\ r1' = ka * kb
  /\ loop_cnt' = 0
  /\ pc' = "k_reduce"
  /\ UNCHANGED <<copy, ka, kb, loop_max, res>>
  /\ UNCHANGED cppVars
  /\ UNCHANGED scanVars

\* one iteration of the fast reduction phase
KyberReduce ==
  /\ pc = "k_reduce"
  /\ r1 > KyberThreshold(copy)
  /\ r1' = r1 - KyberTMulQ(copy, r1)
  /\ loop_cnt' = loop_cnt + 1
  /\ UNCHANGED <<pc, copy, ka, kb, loop_max, res>>
  /\ UNCHANGED cppVars
  /\ UNCHANGED scanVars

\* the final reduction and the statistics update
KyberFinal ==
  /\ pc = "k_reduce"
  /\ ~(r1 > KyberThreshold(copy))
  /\ res' = KyberFinalReduce(r1)
  /\ loop_max' = IF loop_cnt > loop_max THEN loop_cnt ELSE loop_max
  /\ pc' = "k_check"
  /\ UNCHANGED <<copy, ka, kb, r1, loop_cnt>>
  /\ UNCHANGED cppVars
  /\ UNCHANGED scanVars

\* demo = mod(x, Q); error(...) on a mismatch, else on to the next pair
KyberCheck ==
  /\ pc = "k_check"
  /\ IF (ka * kb) % KyberQ # res
     THEN pc' = "k_abort" /\ UNCHANGED <<ka, kb>>
     ELSE IF kb # SweepLast
     THEN pc' = "k_pair" /\ kb' = SweepNext(kb) /\ UNCHANGED ka
     ELSE IF ka # SweepLast
     THEN pc' = "k_pair" /\ ka' = SweepNext(ka) /\ kb' = SweepFirst
     ELSE pc' = "k_end" /\ UNCHANGED <<ka, kb>>
  /\ UNCHANGED <<copy, r1, loop_cnt, loop_max, res>>
  /\ UNCHANGED cppVars
  /\ UNCHANGED scanVars

NextKyber ==
  \/ KyberStart
  \/ KyberReduce
  \/ KyberFinal
  \/ KyberCheck

SpecKyber == InitKyber /\ [][NextKyber]_vars

(***************************************************************************)
(* CalculateMontgomeryInverse on its own, one loop iteration at a time     *)
(***************************************************************************)

\* q ranges over 0..MaxInverseQ and the supported moduli
MaxInverseQ == 24

\* R ranges over 2^1 .. 2^MaxInverseShift
MaxInverseShift == 6

InverseModuli == (0..MaxInverseQ) \cup SupportedModuli

InverseBases == {Pow2(e) : e \in 1..MaxInverseShift}

\* the call CalculateMontgomeryInverse(q, R), at uint32 i = 1
InitInverse ==
  /\ pc = "scan"
  /\ Fresh
  /\ KyberIdle
  /\ scan_q \in InverseModuli
  /\ scan_R \in InverseBases
  /\ scan_i = 1
  /\ scan_inv = 0

\* i < R and the test fails: ++i
ScanStep ==
  /\ pc = "scan"
  /\ scan_i < scan_R
  /\ ~ScanHit(scan_i, scan_q, scan_R)
  /\ scan_i' = scan_i + 1
  /\ UNCHANGED <<pc, scan_q, scan_R, scan_inv>>
  /\ UNCHANGED cppVars
  /\ UNCHANGED kyberVars

\* i < R and the test holds: return i
ScanReturn ==
  /\ pc = "scan"
  /\ scan_i < scan_R
  /\ ScanHit(scan_i, scan_q, scan_R)
  /\ scan_inv' = scan_i
  /\ pc' = "scan_found"
  /\ UNCHANGED <<scan_q, scan_R, scan_i>>
  /\ UNCHANGED cppVars
  /\ UNCHANGED kyberVars

\* i reached R: throw std::domain_error("Montgomery inverse not found")
ScanThrow ==
  /\ pc = "scan"
  /\ scan_i >= scan_R
  /\ error' = InverseNotFound
  /\ pc' = "scan_throw"
  /\ UNCHANGED <<Q, a, b, golden, params, residual, iters, mersenne,
                 montgomery, barrett, mu, quotient>>
  /\ UNCHANGED kyberVars
  /\ UNCHANGED scanVars

NextInverse ==
  \/ ScanStep
  \/ ScanReturn
  \/ ScanThrow

SpecInverse == InitInverse /\ [][NextInverse]_vars

(***************************************************************************)
(* The claims                                                              *)
(***************************************************************************)

IsPrime(n) == n >= 2 /\ \A d \in 2..(n - 1) : n % d # 0

\* the primes among the moduli explored (the supported moduli are primes)
IsPrimeModulus(q) ==
  q \in SupportedModuli \/ (q <= MaxSmallModulus /\ IsPrime(q))

\* x passes DecomposePrime's special cases or is an odd integer >= 3
AcceptableCandidate(x) ==
  x = MIN_PRIME \/ IsPowerOfTwo(x - 1) \/ (x >= 3 /\ x % 2 = 1)

\* C1: for every supported modulus Q and all a, b in [0, Q),
\* GeneralizedMersenneReduce(a, b, Q) returns (a * b) mod Q.
C1_MersenneReturnsProductMod ==
  (mersenne # NotRun /\ Q \in SupportedModuli)
    => mersenne = ProductMod(a, b, Q)

\* C2: for every prime Q, small primes included, and all a, b in [0, Q),
\* GeneralizedMersenneReduce(a, b, Q) returns (a * b) mod Q, whichever Cres
\* branch is taken.
C2_MersenneGenericOverPrimes ==
  (mersenne # NotRun /\ IsPrimeModulus(Q))
    => mersenne = ProductMod(a, b, Q)

\* C3: for every supported modulus Q and all a, b in [0, Q),
\* MontgomeryMultiply(a, b, Q) returns (a * b) mod Q.
C3_MontgomeryReturnsProductMod ==
  (montgomery # NotRun /\ Q \in SupportedModuli)
    => montgomery = ProductMod(a, b, Q)

\* C4: for every supported modulus Q and all a, b in [0, Q), BarrettReduce
\* with mu = CalculateBarrettParameter(Q, modulus_R) returns (a * b) mod Q,
\* and its quotient estimate never exceeds the true quotient (a * b) / Q, so
\* product - quotient * Q does not wrap.
C4_BarrettReturnsProductMod ==
  (barrett # NotRun /\ Q \in SupportedModuli)
    => /\ barrett = ProductMod(a, b, Q)
       /\ Le64(quotient, Div64(Mul64(U64(a), U64(b)), Q))

\* C4 witness: Barrett has returned for Q = 3329, a = b = Q - 1, with a
\* non-zero mu and the quotient estimate 3326
C4_Witness ==
  /\ pc = "done" /\ Q = 3329 /\ a = 3328 /\ b = 3328
  /\ mu = U64(5039) /\ quotient = U64(3326) /\ barrett = 1

\* C5: every decomposition DecomposePrime(x) returns with is_valid = true
\* satisfies x = modulus_R - coefficient_k * 2^shift_q + 1, on all paths.
C5_DecompositionInvariant ==
  (pc = "decomposed" /\ params.is_valid)
    => Q = params.modulus_R - params.coefficient_k * Pow2(params.shift_q) + 1

\* C6: DecomposePrime(x) returns is_valid = false whenever x, past the two
\* special cases, is not an odd integer >= 3, and the reducer rejects such a
\* modulus before it reduces.
C6_InvalidCandidateRejected ==
  /\ (pc = "decomposed" /\ ~AcceptableCandidate(Q)) => ~params.is_valid
  /\ (pc = "gm_loop") => AcceptableCandidate(Q)

\* C7: MontgomeryMultiply(a, b, q) rejects every modulus whose decomposition
\* does not satisfy 2^exponent_p > q: it returns no product for it.
C7_MontgomeryRejectsSmallR ==
  (montgomery # NotRun) => Pow2(DecomposePrime(Q).exponent_p) > Q

\* C8: CalculateBarrettParameter(q, R) returns floor(R^2 / q) for the R of
\* every supported modulus.
C8_BarrettParameterIsFloor ==
  (barrett # NotRun /\ Q \in SupportedModuli)
    => mu = Div64(Mul64(U64(params.modulus_R), U64(params.modulus_R)), Q)

\* C9: in the sweep for Q = 3329 the harness never reaches its abort: after
\* the coarse loop and the final repeated subtraction res is mod(a * b, Q),
\* in the English copy and in the Chinese copy.
C9_SweepNeverAborts ==
  /\ pc # "k_abort"
  /\ (pc = "k_check") => res = (ka * kb) % KyberQ

\* C9 witness: the English copy has reduced 64 * 3328 in two coarse
\* iterations, the second-stage shift t2 being non-zero in the first
C9_Witness ==
  /\ pc = "k_check" /\ copy = "english" /\ ka = 64 /\ kb = 3328
  /\ loop_cnt = 2 /\ res = 3265

\* C10: for every supported modulus, at every head of the coarse loop that
\* runs, Cres >= 1 and step2 + Cres <= residual, so the iteration strictly
\* decreases residual without wrapping.
C10_CoarseStepDecreases ==
  (pc = "gm_loop" /\ Q \in SupportedModuli /\ CoarseLoopRuns(residual, Q))
    => /\ Ge64(Cres(residual, Q, params), U64(1))
       /\ Le64(CoarseAmount(residual, Q, params), residual)

\* the residual after n iterations from r, or <<>> once a subtraction wrapped
RECURSIVE ResidualAfter(_, _, _, _)
ResidualAfter(r, q, d, n) ==
  IF n = 0 THEN r
  ELSE IF Gt64(CoarseAmount(r, q, d), r) THEN <<>>
  ELSE ResidualAfter(CoarseStep(r, q, d), q, d, n - 1)

\* C11: for every odd Q >= 3 and the decomposition DecomposePrime returns for
\* it, the amount one coarse-loop iteration subtracts is Cres * Q for every
\* Cres: ((Cres * (Q >> shift_q)) << shift_q) + Cres = Cres * Q in uint64.
\* Hence at every loop head reached without a wrapped subtraction, residual
\* is congruent to a * b modulo Q.
C11_StepIsMultipleOfQ ==
  (pc = "gm_loop" /\ Q >= 3 /\ Q % 2 = 1) =>
    /\ params = DecomposePrime(Q)
    /\ \A c \in CresSamples \cup {Cres(residual, Q, params)} :
         StepAmount(c, Q, params) = Mul64(c, U64(Q))
    /\ LET r == ResidualAfter(Mul64(U64(a), U64(b)), Q, params, iters)
       IN  r # <<>> =>
             /\ residual = r
             /\ Mod64(residual, Q) = ProductMod(a, b, Q)

\* C11 witness: the second loop head of Q = 3329, a = b = 3328, after one
\* iteration has subtracted 3211 * Q from a * b = 11075584
C11_Witness ==
  /\ pc = "gm_loop" /\ Q = 3329 /\ a = 3328 /\ b = 3328 /\ iters = 1
  /\ residual = U64(386165)
  /\ ResidualAfter(Mul64(U64(a), U64(b)), Q, params, iters) = residual

\* C12: CalculateMontgomeryInverse(q, R) with R a power of two >= 2.  When it
\* returns, q is odd and the value returned is the one i in [1, R) with
\* (i * q) mod R = R - 1; when it throws inverse-not-found, q is even and the
\* scan has been through all of [1, R); an odd q never throws and an even q
\* never returns.
C12_InverseScan ==
  /\ (pc = "scan_found") =>
       /\ scan_q % 2 = 1
       /\ scan_inv \in 1..(scan_R - 1)
       /\ ProductMod(scan_inv, scan_q, scan_R) = scan_R - 1
       /\ \A j \in 1..(scan_R - 1) :
            ProductMod(j, scan_q, scan_R) = scan_R - 1 => j = scan_inv
       /\ scan_inv = CalculateMontgomeryInverse(scan_q, scan_R)
  /\ (pc = "scan_throw") =>
       /\ scan_q % 2 = 0
       /\ scan_i = scan_R
       /\ error = InverseNotFound
       /\ CalculateMontgomeryInverse(scan_q, scan_R) = 0

\* C12 witness: q = 3329 is 1 modulo 64, so the scan for R = 64 returns at
\* its last value i = 63
C12_Witness ==
  /\ pc = "scan_found" /\ scan_q = 3329 /\ scan_R = 64
  /\ scan_i = 63 /\ scan_inv = 63

====
